---- MODULE Spec2Model ----
(***************************************************************************)
(* A model of the instance-lifecycle and correlation layer of the          *)
(* OnlyOffice component: the tab LRU cache (useTabCache), the cross-frame  *)
(* RPC client (OnlyOfficeServiceClient) and the export path of the editor  *)
(* manager over the save event bus.  Each component has its own            *)
(* specification over the shared variables; a specification leaves the     *)
(* variables of the other components unchanged.                            *)
(***************************************************************************)
EXTENDS Integers, Sequences, FiniteSets, TLC

VARIABLES
    \* ---- useTabCache (src/src/app/multi/tabs/page.tsx) ----
    cache,        \* cacheRef.current: the Map, as the sequence of its entries in insertion order
    clock,        \* the value the last Date.now() call returned
    recency,      \* history: the cached keys, least recently touched (addToCache/getFromCache) first
    strictClock,  \* history: every Date.now() so far returned more than the one before
    evictions,    \* history: what the eviction loop of the last operation removed, in order
    lastWasGet,   \* history: the operation before this state was a getFromCache that hit
    fillCount,    \* history: how many distinct keys addToCache has inserted since the cache
                  \* was empty, when nothing else was done since; NoFill otherwise
    calls         \* history: the set(), destroy(), delete() and clear() calls of the last
                  \* cache operation, in order

cacheVars == <<cache, clock, recency, strictClock, evictions, lastWasGet, fillCount, calls>>

VARIABLES
    \* ---- OnlyOfficeServiceClient (src/unnamed/part_001) ----
    iframe,           \* this.iframe is set
    ready,            \* this.ready
    readyResolve,     \* this.readyResolve is set, i.e. readyPromise is still unresolved
    messageListeners, \* how many 'message' listeners the client has added to window
    pendingRequests,  \* the keys of this.pendingRequests
    timers,           \* the requestIds whose setTimeout is scheduled and not cleared
    eventListeners,   \* this.eventListeners: event type -> set of callbacks
    requestIdCounter, \* this.requestIdCounter
    futures,          \* the promises sendMessage returned, one record per call, in call order
    initWaiting,      \* how many init() calls are suspended on readyPromise
    closed,           \* history: destroyClient() was called and init() not since
    last              \* history: what the last client step did

rpcVars == <<iframe, ready, readyResolve, messageListeners, pendingRequests, timers,
             eventListeners, requestIdCounter, futures, initWaiting, closed, last>>

VARIABLES
    \* ---- EditorManager and saveEventBus (src/unnamed/part_001, lib/eventbus.ts) ----
    editor,           \* this.editor of each manager: the engine bound, or NoEditor
    editorConfig,     \* this.editorConfig of each manager is set
    readOnly,         \* this.readOnly of each manager
    listeners,        \* saveEventBus.listeners: the registered callbacks, in registration order
    exports,          \* the promises export() returned, one record per call, in call order
    destroyedEngines, \* history: the engines whose destroyEditor() was called
    destroyed,        \* history: destroy() was called on the manager and create() not since
    lastMode,         \* history: the last setReadOnly() call, when nothing was done since
    emitCount,        \* history: how many times saveEventBus.emit() was called
    skipped,          \* history: how many callbacks registered at the last emit() it did not invoke
    constructed,      \* history: the engines createEditorInstance() has constructed
    peakLive,         \* history: the most engines constructed and not destroyed at one time
                      \* during the last createEditorInstance()
    createLog         \* history: the steps of the last create() call, in order, when nothing
                      \* was done on the managers or the bus since

exportVars == <<editor, editorConfig, readOnly, listeners, exports, destroyedEngines,
                destroyed, lastMode, emitCount, skipped, constructed, peakLive, createLog>>

VARIABLES
    \* ---- editorManagerFactory (the instance registry of spec section 4.3) ----
    registry,         \* the entries of the registry, in creation order
    instanceCounter,  \* how many handles the registry has made; the source of instanceIds
    created,          \* history: the containerIds create() was called with and destroy() not since
    lastLookup        \* history: the last create()/get() call and the handle it returned

registryVars == <<registry, instanceCounter, created, lastLookup>>

VARIABLES
    \* ---- OnlyOfficeServicePage (src/unnamed/part_003) ----
    requests,         \* the request messages handleMessage was called with, one record per
                      \* call, in arrival order, with the position of the handler
    responses,        \* the RESPONSE messages posted to window.parent, in order
    instanceMap,      \* the keys of instanceMapRef.current
    readiness,        \* the effect has run, the 'load' listener is registered, how many
                      \* sendReady timers are scheduled, how many SERVICE_READY were posted
    forwarded         \* history: the event messages the last onlyofficeEventbus emission
                      \* made the page post: the instanceId each carries, the instance
                      \* that emitted, and whether the tagged instance was destroyed

serviceVars == <<requests, responses, instanceMap, readiness, forwarded>>

VARIABLES
    \* ---- TabsPage (src/src/app/multi/tabs/page.tsx) ----
    tabCounter,       \* tabCounterRef.current
    pendingTabs,      \* the pendingTabs state: the tab ids waiting for their editor
    running,          \* how many processPendingTab() runs are in flight for each tab
    createCalls,      \* history: how many times createEditorView was invoked for each tab
    removals          \* history: how many times slice(1) removed the queue entry of each tab

tabsVars == <<tabCounter, pendingTabs, running, createCalls, removals>>

VARIABLES
    \* ---- createEditorView (src/src/onlyoffice-comp/lib/x2t.ts) ----
    readyListeners,   \* the DOCUMENT_READY listeners createEditorView registered on eventBus:
                      \* readOnly and hasUsed of the closure, and the engine its call created
    lastReady         \* history: the setReadOnly calls the last DOCUMENT_READY emission
                      \* triggered: the engine that got ready and the engine of the call

viewVars == <<readyListeners, lastReady>>

VARIABLES
    \* ---- X2TConverter (src/src/onlyoffice-comp/lib/x2t.ts) ----
    x2t,              \* hasScriptLoaded, isReady, the state of initPromise ("null" when not
                      \* set), whether onRuntimeInitialized can still fire, and as history
                      \* how far the last attempt got and how many attempts were started
    initCalls         \* history: the initialize() calls, in order: the attempt each one
                      \* returned, whether it started it, and what it found

x2tVars == <<x2t, initCalls>>

vars == <<cacheVars, rpcVars, exportVars, registryVars, serviceVars, tabsVars, viewVars,
          x2tVars>>

\* what the steps of one component leave alone
nonCacheVars == <<rpcVars, exportVars, registryVars, serviceVars, tabsVars, viewVars,
    x2tVars>>
nonRpcVars == <<cacheVars, exportVars, registryVars, serviceVars, tabsVars, viewVars,
    x2tVars>>
nonExportVars == <<cacheVars, rpcVars, registryVars, serviceVars, tabsVars, viewVars,
    x2tVars>>
nonRegistryVars == <<cacheVars, rpcVars, exportVars, serviceVars, tabsVars, viewVars,
    x2tVars>>
nonServiceVars == <<cacheVars, rpcVars, exportVars, tabsVars, viewVars,
    x2tVars>>

(***************************************************************************)
(* Bounds of the model.                                                    *)
(***************************************************************************)
maxCacheSize == 2
MaxTime == 4
MaxCalls == 2          \* sendMessage calls in a behaviour
MaxEventCalls == 1     \* the same, where listeners are registered too
MaxListeners == 2      \* 'message' listeners added to window (one per constructor and per init)
MaxExports == 2        \* export() calls in a behaviour
MaxEmits == 2          \* saveEventBus.emit() calls in a behaviour
MaxSubscriptions == 2  \* callbacks other than handleSave registered on saveEventBus at a time
MaxInstances == 3      \* handles the registry makes in a behaviour
MaxRequests == 2       \* request messages the service page receives in a behaviour
MaxTabs == 2           \* createTab calls in a behaviour
MaxInitCalls == 4      \* X2TConverter.initialize() calls in a behaviour

(***************************************************************************)
(* useTabCache                                                             *)
(***************************************************************************)
\* Number.MAX_SAFE_INTEGER is 2^53 - 1; the model's timestamps stay below
\* MaxTime, so the largest integer TLC represents stands for it.
MAX_SAFE_INTEGER == 2147483647

\* The tab ids the callers pass; the hook takes any string, the empty one included.
TabIds == {"", "t1", "t2", "t3"}

\* fillCount when something other than inserts of distinct keys has happened
NoFill == -1

\* renderProps.manager of the entry created for a tab.
ManagerOf(tabId) == <<"manager", tabId>>

\* the managers addToCache is called with for a tab: the one created for it
\* and, for t1, the one of a second createEditorView for the same tab
ManagersOf(tabId) ==
    IF tabId = "t1" THEN {ManagerOf("t1"), ManagerOf("t1 (2)")} ELSE {ManagerOf(tabId)}

SeqToSet(s) == {s[i] : i \in 1..Len(s)}

RemoveKey(keys, k) == SelectSeq(keys, LAMBDA x : x # k)

\* Map.prototype.has
CacheHas(c, tabId) == \E i \in 1..Len(c) : c[i].id = tabId

\* Map.prototype.get (of a key that is present)
CacheGet(c, tabId) == c[CHOOSE i \in 1..Len(c) : c[i].id = tabId]

\* Map.prototype.set: an existing key keeps its place in the iteration order
CacheSet(c, item) ==
    IF CacheHas(c, item.id)
    THEN [i \in 1..Len(c) |-> IF c[i].id = item.id THEN item ELSE c[i]]
    ELSE Append(c, item)

\* Map.prototype.delete
CacheDelete(c, tabId) == SelectSeq(c, LAMBDA e : e.id # tabId)

\* the test of the scan: item.lastAccessed < oldestTime
OlderNewest(lastAccessed, oldestTime) ==
    oldestTime = MAX_SAFE_INTEGER \/ lastAccessed > oldestTime

Older(lastAccessed, oldestTime) == lastAccessed < oldestTime

\* the for-of scan of addToCache: the key of the first entry with the least
\* lastAccessed, "" when no entry is below MAX_SAFE_INTEGER
RECURSIVE FindOldest(_, _, _, _)
FindOldest(c, i, oldestKey, oldestTime) ==
    IF i > Len(c) THEN oldestKey
    ELSE IF Older(c[i].lastAccessed, oldestTime)
         THEN FindOldest(c, i + 1, c[i].id, c[i].lastAccessed)
         ELSE FindOldest(c, i + 1, oldestKey, oldestTime)

MinTime(c) == CHOOSE t \in {c[i].lastAccessed : i \in 1..Len(c)} :
                  \A i \in 1..Len(c) : t <= c[i].lastAccessed

\* a manager whose destroy() throws
DestroyThrows(manager) == manager = ManagerOf("t2")

\* item.renderProps.manager.destroy() without the try/catch around it
TryDestroyNoCatch(item) ==
    [call |-> "destroy", id |-> item.id, threw |-> DestroyThrows(item.manager),
     propagated |-> DestroyThrows(item.manager), had |-> 0]

\* try { item.renderProps.manager.destroy() } catch (err) { console.warn(...) }
TryDestroy(item) ==
    [call |-> "destroy", id |-> item.id, threw |-> DestroyThrows(item.manager),
     propagated |-> FALSE, had |-> 0]

\* cache.set(tabId, ...), cache.delete(key) of a key that was or was not
\* present, and cache.clear() of a table of n entries
SetCall(tabId) ==
    [call |-> "set", id |-> tabId, threw |-> FALSE, propagated |-> FALSE, had |-> 0]
Deleted(tabId, had) ==
    [call |-> "delete", id |-> tabId, threw |-> FALSE, propagated |-> FALSE,
     had |-> IF had THEN 1 ELSE 0]
Cleared(n) == [call |-> "clear", id |-> "", threw |-> FALSE, propagated |-> FALSE, had |-> n]

\* the calls that remove one entry, delete first
RemovalCallsDeleteFirst(item) == <<Deleted(item.id, TRUE), TryDestroy(item)>>

\* the calls that remove one entry (eviction and removeFromCache): destroy() of
\* its manager, then delete(); an exception leaving destroy() ends the operation
RemovalCalls(item) ==
    IF TryDestroy(item).propagated THEN <<TryDestroy(item)>>
    ELSE <<TryDestroy(item), Deleted(item.id, TRUE)>>

\* the operation got as far as its delete() or clear() call
Removed(cs) == \E i \in 1..Len(cs) : cs[i].call \in {"delete", "clear"}

\* the while loop of addToCache.  rec is the history order of the keys of c;
\* log collects, for each removal, the entry and what the table was like; cs
\* collects the calls made.
RECURSIVE EvictLoop(_, _, _, _, _)
EvictLoop(c, rec, afterGet, log, cs) ==
    IF Len(c) > maxCacheSize
    THEN LET oldestKey == FindOldest(c, 1, "", MAX_SAFE_INTEGER)
         IN  IF oldestKey # ""
             THEN LET rc == RemovalCalls(CacheGet(c, oldestKey))
                  IN  IF Removed(rc)
                      THEN EvictLoop(CacheDelete(c, oldestKey),
                                     RemoveKey(rec, oldestKey), afterGet,
                                     Append(log, [id           |-> oldestKey,
                                                  lastAccessed |-> CacheGet(c, oldestKey).lastAccessed,
                                                  minTime      |-> MinTime(c),
                                                  leastRecent  |-> Head(rec),
                                                  firstKey     |-> c[1].id,
                                                  afterGet     |-> afterGet,
                                                  sizeBefore   |-> Len(c)]),
                                     cs \o rc)
                      ELSE [cache |-> c, recency |-> rec, log |-> log, calls |-> cs \o rc]
             ELSE [cache |-> c, recency |-> rec, log |-> log, calls |-> cs]
    ELSE [cache |-> c, recency |-> rec, log |-> log, calls |-> cs]

\* the forEach of clearCache over the entries from the i-th on
RECURSIVE DestroyEach(_, _)
DestroyEach(c, i) ==
    IF i > Len(c) THEN <<>>
    ELSE IF TryDestroy(c[i]).propagated THEN <<TryDestroy(c[i])>>
    ELSE <<TryDestroy(c[i])>> \o DestroyEach(c, i + 1)

\* Date.now(): the clock does not run backwards, and two calls in the same
\* millisecond read the same value
Now(now) ==
    /\ now \in {clock, clock + 1}
    /\ now <= MaxTime
    /\ clock' = now
    /\ strictClock' = (strictClock /\ now > clock)

AddToCache(tabId, manager, now) ==
    /\ Now(now)
    /\ UNCHANGED nonCacheVars
    /\ LET item == [id |-> tabId, lastAccessed |-> now, manager |-> manager]
           r    == EvictLoop(CacheSet(cache, item),
                             Append(RemoveKey(recency, tabId), tabId), lastWasGet, <<>>,
                             <<SetCall(tabId)>>)
       IN  /\ cache' = r.cache
           /\ calls' = r.calls
           /\ recency' = r.recency
           /\ evictions' = r.log
           /\ lastWasGet' = FALSE
           /\ fillCount' = IF fillCount \in 0..maxCacheSize /\ ~CacheHas(cache, tabId)
                           THEN fillCount + 1 ELSE NoFill

GetFromCache(tabId, now) ==
    /\ CacheHas(cache, tabId)
    /\ Now(now)
    /\ UNCHANGED nonCacheVars
    /\ cache' = CacheSet(cache, [CacheGet(cache, tabId) EXCEPT !.lastAccessed = now])
    /\ recency' = Append(RemoveKey(recency, tabId), tabId)
    /\ evictions' = <<>>
    /\ lastWasGet' = TRUE
    /\ fillCount' = NoFill
    /\ calls' = <<>>

\* getFromCache of a key that is not cached reads nothing, not even the clock
GetFromCacheMiss(tabId) ==
    /\ ~CacheHas(cache, tabId)
    /\ evictions' = <<>>
    /\ lastWasGet' = FALSE
    /\ calls' = <<>>
    /\ UNCHANGED <<cache, clock, recency, strictClock, fillCount>>
    /\ UNCHANGED nonCacheVars

RemoveFromCache(tabId) ==
    /\ calls' = IF CacheHas(cache, tabId) THEN RemovalCalls(CacheGet(cache, tabId))
                 ELSE <<Deleted(tabId, FALSE)>>
    /\ cache' = IF Removed(calls') THEN CacheDelete(cache, tabId) ELSE cache
    /\ recency' = IF Removed(calls') THEN RemoveKey(recency, tabId) ELSE recency
    /\ evictions' = <<>>
    /\ lastWasGet' = FALSE
    /\ fillCount' = IF cache' = <<>> THEN 0 ELSE IF CacheHas(cache, tabId) THEN NoFill ELSE fillCount
    /\ UNCHANGED <<clock, strictClock>>
    /\ UNCHANGED nonCacheVars

ClearCache ==
    /\ calls' = IF \E i \in 1..Len(DestroyEach(cache, 1)) : DestroyEach(cache, 1)[i].propagated
                 THEN DestroyEach(cache, 1)
                 ELSE Append(DestroyEach(cache, 1), Cleared(Len(cache)))
    /\ cache' = IF Removed(calls') THEN <<>> ELSE cache
    /\ recency' = IF Removed(calls') THEN <<>> ELSE recency
    /\ evictions' = <<>>
    /\ lastWasGet' = FALSE
    /\ fillCount' = IF cache' = <<>> THEN 0 ELSE NoFill
    /\ UNCHANGED <<clock, strictClock>>
    /\ UNCHANGED nonCacheVars

InitCache ==
    /\ cache = <<>>
    /\ clock = 0
    /\ recency = <<>>
    /\ strictClock = TRUE
    /\ evictions = <<>>
    /\ lastWasGet = FALSE
    /\ fillCount = 0
    /\ calls = <<>>

NextCache ==
    \/ \E tabId \in TabIds, now \in 0..MaxTime : AddToCache(tabId, ManagerOf(tabId), now)
    \/ \E tabId \in TabIds, now \in 0..MaxTime : GetFromCache(tabId, now)
    \/ \E tabId \in TabIds : GetFromCacheMiss(tabId)
    \/ \E tabId \in TabIds : RemoveFromCache(tabId)
    \/ ClearCache

\* the operations that insert and remove entries
NextCacheRemoval ==
    \/ \E tabId \in TabIds, now \in 0..MaxTime :
          \E manager \in ManagersOf(tabId) : AddToCache(tabId, manager, now)
    \/ \E tabId \in TabIds : RemoveFromCache(tabId)
    \/ ClearCache

(***************************************************************************)
(* OnlyOfficeServiceClient                                                 *)
(***************************************************************************)
NoId == 0
NoError == "(no error field)"
Unsettled == [kind |-> "unsettled", value |-> ""]

RequestTypes == {"SET_READ_ONLY", "EXPORT"}
EventTypes == {"DOCUMENT_READY", "LOADING_CHANGE", "SAVE_DOCUMENT"}
Data == {"d1", "d2"}
Callbacks == {"cb1", "cb2"}

\* the requestIds a message may carry: those issued so far and one never issued
RequestIds == 1..(MaxCalls + 1)

\* the messages the window delivers to the client
Messages ==
    {[type |-> "SERVICE_READY", requestId |-> NoId, error |-> NoError, data |-> "d1"]}
    \cup [type : {"RESPONSE"}, requestId : RequestIds, error : {NoError}, data : Data]
    \cup [type : {"RESPONSE"}, requestId : RequestIds, error : {"boom"}, data : {"d1"}]
    \cup [type : EventTypes, requestId : {NoId} \cup RequestIds, error : {NoError}, data : {"d1"}]
    \cup {[type |-> "", requestId |-> NoId, error |-> NoError, data |-> "d1"]}

\* the messages of the event branch: an event type and no requestId
EventMessages == [type : EventTypes, requestId : {NoId}, error : {NoError}, data : Data]

Resolved(data) == [kind |-> "resolved", value |-> data]
Rejected(message) == [kind |-> "rejected", value |-> message]
TimeoutError(type) == "Request timeout: " \o type
ClientDestroyed == "Client destroyed"
IframeNotInitialized == "Iframe not initialized"

\* resolve()/reject() of a promise: the first call decides the outcome, every
\* call is counted
Settle(f, outcome) ==
    [f EXCEPT !.outcome = IF @ = Unsettled THEN outcome ELSE @,
              !.settles = @ + 1]

\* the call whose promise the pendingRequests entry of requestId holds
CallOfOldestPending(fs, requestId) ==
    IF \E c \in 1..Len(fs) : fs[c].phase = "pending"
    THEN CHOOSE c \in 1..Len(fs) :
             /\ fs[c].phase = "pending"
             /\ \A d \in 1..Len(fs) : fs[d].phase = "pending" => c <= d
    ELSE CHOOSE c \in 1..Len(fs) : fs[c].requestId = requestId

CallOf(fs, requestId) == CHOOSE c \in 1..Len(fs) : fs[c].requestId = requestId

\* clearTimeout(request.timeout)
ClearTimeoutNoOp(ts, requestId) == ts

ClearTimeout(ts, requestId) == ts \ {requestId}

\* this.pendingRequests.delete(requestId)
PendingDeleteNoOp(pending, requestId) == pending

PendingDelete(pending, requestId) == pending \ {requestId}

\* the body of sendMessage after the wait for readiness (lines 163-186), for
\* the call recorded at futures[c]; st carries the client fields it touches
Transmit(st, c) ==
    IF ~st.iframe
    THEN [st EXCEPT !.futures[c] = Settle([@ EXCEPT !.phase = "done"],
                                          Rejected(IframeNotInitialized))]
    ELSE LET requestId == st.requestIdCounter + 1
         IN  [st EXCEPT !.requestIdCounter = requestId,
                        !.futures[c] = [@ EXCEPT !.phase = "pending", !.requestId = requestId],
                        !.pendingRequests = @ \cup {requestId},
                        !.timers = @ \cup {requestId}]

\* the continuations of the sendMessage calls suspended on readyPromise, in call order
RECURSIVE TransmitWaiting(_, _)
TransmitWaiting(st, c) ==
    IF c > Len(st.futures) THEN st
    ELSE IF st.futures[c].phase = "awaitReady"
         THEN TransmitWaiting(Transmit(st, c), c + 1)
         ELSE TransmitWaiting(st, c + 1)

\* this.eventListeners.get(message.type)
ListenersOfFirst(table, type) ==
    IF table[type] = {} THEN {} ELSE {CHOOSE callback \in table[type] : TRUE}

ListenersOf(table, type) == table[type]

\* listeners.forEach(callback => callback(message.data)): one invocation per
\* callback of the Set, each with the data of the message
RECURSIVE ForEachCallback(_, _)
ForEachCallback(callbacks, m) ==
    IF callbacks = {} THEN <<>>
    ELSE LET callback == CHOOSE c \in callbacks : TRUE
         IN  <<[callback |-> callback, type |-> m.type, data |-> m.data]>>
             \o ForEachCallback(callbacks \ {callback}, m)

\* one run of the 'message' listener of setupMessageListener on message m
HandleMessage(st, m) ==
    IF m.type = "" THEN st
    ELSE IF m.type = "SERVICE_READY"
    THEN IF st.readyResolve
         THEN TransmitWaiting([st EXCEPT !.ready = TRUE, !.readyResolve = FALSE,
                                         !.initWaiting = 0], 1)
         ELSE [st EXCEPT !.ready = TRUE]
    ELSE IF m.requestId # NoId /\ m.requestId \in st.pendingRequests
    THEN LET c == CallOf(st.futures, m.requestId)
         IN  [st EXCEPT !.timers = ClearTimeout(@, m.requestId),
                        !.pendingRequests = PendingDelete(@, m.requestId),
                        !.futures[c] = Settle([@ EXCEPT !.phase = "done"],
                                              IF m.error \notin {NoError, ""}
                                              THEN Rejected(m.error)
                                              ELSE Resolved(m.data))]
    ELSE IF m.type \in EventTypes
    THEN LET callbacks == ListenersOf(st.eventListeners, m.type)
         IN  IF callbacks # {}
             THEN [st EXCEPT !.event = m.type,
                             !.delivered = @ \o ForEachCallback(callbacks, m)]
             ELSE st
    ELSE st

\* the window runs every 'message' listener the client added, one after the other
RECURSIVE Dispatch(_, _, _)
Dispatch(st, m, n) ==
    IF n = 0 THEN st ELSE Dispatch(HandleMessage(st, m), m, n - 1)

ClientState ==
    [iframe |-> iframe, ready |-> ready, readyResolve |-> readyResolve,
     pendingRequests |-> pendingRequests, timers |-> timers,
     eventListeners |-> eventListeners, requestIdCounter |-> requestIdCounter,
     futures |-> futures, initWaiting |-> initWaiting, event |-> "", delivered |-> <<>>]

SetClientState(st) ==
    /\ iframe' = st.iframe
    /\ ready' = st.ready
    /\ readyResolve' = st.readyResolve
    /\ pendingRequests' = st.pendingRequests
    /\ timers' = st.timers
    /\ eventListeners' = st.eventListeners
    /\ requestIdCounter' = st.requestIdCounter
    /\ futures' = st.futures
    /\ initWaiting' = st.initWaiting

\* a message event on window
Receive(m) ==
    LET st == Dispatch(ClientState, m, messageListeners)
    IN  /\ SetClientState(st)
        /\ last' = [op |-> "message",
                    stray |-> IF m.requestId # NoId /\ m.requestId \notin pendingRequests
                              THEN m.requestId ELSE NoId,
                    event |-> st.event,
                    delivered |-> st.delivered]
        /\ UNCHANGED <<messageListeners, closed>>
        /\ UNCHANGED nonRpcVars

\* init(iframe)
InitClient ==
    /\ UNCHANGED nonRpcVars
    /\ IF iframe
       THEN /\ last' = [op |-> "init", resolved |-> TRUE, ready |-> ready]
            /\ UNCHANGED <<iframe, ready, readyResolve, messageListeners, pendingRequests,
                           timers, eventListeners, requestIdCounter, futures, initWaiting,
                           closed>>
       ELSE /\ messageListeners < MaxListeners
            /\ iframe' = TRUE
            /\ messageListeners' = messageListeners + 1
            /\ closed' = FALSE
            /\ IF readyResolve
               THEN /\ initWaiting' = initWaiting + 1
                    /\ last' = [op |-> "init", resolved |-> FALSE, ready |-> ready]
               ELSE /\ initWaiting' = initWaiting
                    /\ last' = [op |-> "init", resolved |-> TRUE, ready |-> ready]
            /\ UNCHANGED <<ready, readyResolve, pendingRequests, timers, eventListeners,
                           requestIdCounter, futures>>

\* sendMessage(type, data, timeout), as called by createEditor, setReadOnly,
\* export and destroy
SendMessage(type, maxCalls) ==
    /\ Len(futures) < maxCalls
    /\ LET c  == Len(futures) + 1
           f  == [type |-> type, phase |-> "awaitReady", requestId |-> NoId,
                  outcome |-> Unsettled, settles |-> 0, timerFired |-> FALSE]
           st == [ClientState EXCEPT !.futures = Append(@, f)]
       IN  IF ~ready /\ readyResolve
           THEN SetClientState(st)
           ELSE SetClientState(Transmit(st, c))
    /\ last' = [op |-> "call"]
    /\ UNCHANGED <<messageListeners, closed>>
    /\ UNCHANGED nonRpcVars

\* the setTimeout callback of sendMessage
TimerFires(requestId) ==
    /\ requestId \in timers
    /\ LET c == CallOf(futures, requestId)
       IN  futures' = [futures EXCEPT ![c] = Settle([@ EXCEPT !.phase = "done",
                                                                !.timerFired = TRUE],
                                                    Rejected(TimeoutError(@.type)))]
    /\ pendingRequests' = PendingDelete(pendingRequests, requestId)
    /\ timers' = timers \ {requestId}
    /\ last' = [op |-> "call"]
    /\ UNCHANGED <<iframe, ready, readyResolve, messageListeners, eventListeners,
                   requestIdCounter, initWaiting, closed>>
    /\ UNCHANGED nonRpcVars

\* on(event, callback)
On(event, callback) ==
    /\ eventListeners' = [eventListeners EXCEPT ![event] = @ \cup {callback}]
    /\ last' = [op |-> "call"]
    /\ UNCHANGED <<iframe, ready, readyResolve, messageListeners, pendingRequests, timers,
                   requestIdCounter, futures, initWaiting, closed>>
    /\ UNCHANGED nonRpcVars

\* off(event, callback)
Off(event, callback) ==
    /\ eventListeners' = [eventListeners EXCEPT ![event] = @ \ {callback}]
    /\ last' = [op |-> "call"]
    /\ UNCHANGED <<iframe, ready, readyResolve, messageListeners, pendingRequests, timers,
                   requestIdCounter, futures, initWaiting, closed>>
    /\ UNCHANGED nonRpcVars

\* destroyClient()
DestroyClient ==
    /\ iframe' = FALSE
    /\ ready' = FALSE
    /\ futures' = [c \in 1..Len(futures) |->
                     IF futures[c].requestId \in pendingRequests
                     THEN Settle([futures[c] EXCEPT !.phase = "done"], Rejected(ClientDestroyed))
                     ELSE futures[c]]
    /\ timers' = timers \ pendingRequests
    /\ pendingRequests' = {}
    /\ eventListeners' = [e \in EventTypes |-> {}]
    /\ closed' = TRUE
    /\ last' = [op |-> "call"]
    /\ UNCHANGED <<readyResolve, messageListeners, requestIdCounter, initWaiting>>
    /\ UNCHANGED nonRpcVars

\* the state after `new OnlyOfficeServiceClient()` in a browser
InitRpc ==
    /\ iframe = FALSE
    /\ ready = FALSE
    /\ readyResolve = TRUE
    /\ messageListeners = 1
    /\ pendingRequests = {}
    /\ timers = {}
    /\ eventListeners = [e \in EventTypes |-> {}]
    /\ requestIdCounter = 0
    /\ futures = <<>>
    /\ initWaiting = 0
    /\ closed = FALSE
    /\ last = [op |-> "call"]

\* the client driving requests; no event listener is registered
NextRpc ==
    \/ InitClient
    \/ \E type \in RequestTypes : SendMessage(type, MaxCalls)
    \/ \E m \in Messages : Receive(m)
    \/ \E requestId \in RequestIds : TimerFires(requestId)
    \/ DestroyClient

\* the same with on()/off() calls
NextRpcEvents ==
    \/ InitClient
    \/ \E type \in RequestTypes : SendMessage(type, MaxEventCalls)
    \/ \E m \in Messages : Receive(m)
    \/ \E requestId \in RequestIds : TimerFires(requestId)
    \/ \E event \in EventTypes, callback \in Callbacks : On(event, callback)
    \/ \E event \in EventTypes, callback \in Callbacks : Off(event, callback)
    \/ DestroyClient

\* the readiness signal, the events and the responses to the requests issued
FanoutMessages ==
    {[type |-> "SERVICE_READY", requestId |-> NoId, error |-> NoError, data |-> "d1"]}
    \cup EventMessages
    \cup [type : {"RESPONSE"}, requestId : 1..MaxEventCalls,
          error : {NoError, "", "boom"}, data : {"d1"}]

\* the client with its event listeners, never closed
NextRpcFanout ==
    \/ InitClient
    \/ \E type \in RequestTypes : SendMessage(type, MaxEventCalls)
    \/ \E m \in FanoutMessages : Receive(m)
    \/ \E requestId \in RequestIds : TimerFires(requestId)
    \/ \E event \in EventTypes, callback \in Callbacks : On(event, callback)
    \/ \E event \in EventTypes, callback \in Callbacks : Off(event, callback)

(***************************************************************************)
(* EditorManager and saveEventBus                                          *)
(***************************************************************************)
Handles == {"A", "B"}
Engines == {"e1", "e2"}
NoEditor == "null"
\* the config argument of create(): absent, or present with its readOnly field
Configs == {"absent", "readOnly: true", "readOnly: false", "readOnly: undefined"}

\* the SaveDocumentData the n-th save produces, a save of the engine of handle h
SaveData(h, n) == [instanceId |-> h, binData |-> n]
NoData == [instanceId |-> "", binData |-> 0]

EditorNotAvailable == "Editor not available for export"
ExportTimeoutError == "Export timeout: no data received"
DownloadAsError == "downloadAs failed"

\* the callbacks on saveEventBus: the handleSave closure of export call c, and
\* the callbacks other code registers, one of which throws
HandleSaveOf(c) == [name |-> "handleSave", export |-> c]
Subscribers == {[name |-> "callback", export |-> 0], [name |-> "thrower", export |-> 0]}
Throws(listener) == listener.name = "thrower"

\* callbacks that call saveEventBus.on(callback) / saveEventBus.off(callback)
\* for the plain callback when they are invoked
ReentrantSubscribers == {[name |-> "adder", export |-> 0], [name |-> "remover", export |-> 0]}

\* saveEventBus.on(callback)
BusOn(ls, callback) == Append(ls, callback)

\* saveEventBus.off(callback)
BusOffNoOp(ls, callback) == ls

BusOff(ls, callback) == SelectSeq(ls, LAMBDA listener : listener # callback)

\* this.listeners after the on()/off() calls listener makes when it is invoked
ListenerCalls(ls, listener) ==
    IF listener.name = "handleSave" THEN BusOff(ls, listener)
    ELSE IF listener.name = "adder" THEN BusOn(ls, [name |-> "callback", export |-> 0])
    ELSE IF listener.name = "remover" THEN BusOff(ls, [name |-> "callback", export |-> 0])
    ELSE ls

\* resolve(data)/reject(error) of the promise of an export() call
ExportSettle(x, status, data, error) ==
    IF x.status = "pending"
    THEN [x EXCEPT !.status = status, !.payload = data, !.error = error, !.settles = @ + 1]
    ELSE [x EXCEPT !.settles = @ + 1]

\* handleSave(data) of export call c
HandleSave(st, c, data) ==
    [st EXCEPT !.exports[c] = ExportSettle([@ EXCEPT !.timer = FALSE], "resolved", data, ""),
               !.listeners = ListenerCalls(@, HandleSaveOf(c))]

\* this.listeners.forEach(listener => listener(data)) over the array emit() started
\* with: a callback that throws ends the forEach, the rest is not invoked
RECURSIVE ForEachListener(_, _, _)
ForEachListener(st, snapshot, data) ==
    IF snapshot = <<>> THEN st
    ELSE LET listener == Head(snapshot)
         IN  IF Throws(listener)
             THEN [st EXCEPT !.skipped = Len(Tail(snapshot))]
             ELSE IF listener.name = "handleSave"
             THEN ForEachListener(HandleSave(st, listener.export, data), Tail(snapshot), data)
             ELSE ForEachListener([st EXCEPT !.listeners = ListenerCalls(@, listener)],
                                  Tail(snapshot), data)

NoMode == [handle |-> "", flag |-> FALSE, editorBefore |-> NoEditor, readOnlyBefore |-> FALSE]

\* an engine whose destroyEditor() throws
TeardownThrows(e) == e = "e2"

\* this.editor.destroyEditor() without the try/catch around it
TryDestroyEditorNoCatch(e) ==
    [step |-> "destroyEditor", engine |-> e, threw |-> TeardownThrows(e),
     propagated |-> TeardownThrows(e)]

\* try { this.editor.destroyEditor() } catch (error) { console.warn(...) }
TryDestroyEditor(e) ==
    [step |-> "destroyEditor", engine |-> e, threw |-> TeardownThrows(e), propagated |-> FALSE]

\* this.editor = editor
Bind(e) == [step |-> "bind", engine |-> e, threw |-> FALSE, propagated |-> FALSE]

\* the assignments of create(editor, config) on the manager of handle h; an
\* exception that leaves the teardown of the old engine ends the call there
CreateFields(h, e, config) ==
    LET bound    == editor[h] # NoEditor
        teardown == TryDestroyEditor(editor[h])
        aborted  == bound /\ teardown.propagated
    IN  /\ destroyedEngines' = IF bound THEN destroyedEngines \cup {editor[h]}
                                ELSE destroyedEngines
        /\ createLog' = (IF bound THEN <<teardown>> ELSE <<>>)
                         \o (IF aborted THEN <<>> ELSE <<Bind(e)>>)
        /\ editor' = IF aborted THEN editor ELSE [editor EXCEPT ![h] = e]
        /\ editorConfig' = [editorConfig EXCEPT ![h] = IF config # "absent" /\ ~aborted
                                                       THEN TRUE ELSE @]
        /\ readOnly' = [readOnly EXCEPT ![h] = IF config # "absent" /\ ~aborted
                                               THEN config = "readOnly: true" ELSE @]
        /\ destroyed' = [destroyed EXCEPT ![h] = IF aborted THEN @ ELSE FALSE]
        /\ lastMode' = NoMode

\* create(editor, config) on the manager of handle h
Create(h, e, config) ==
    /\ CreateFields(h, e, config)
    /\ UNCHANGED <<listeners, exports, emitCount, skipped>>
    /\ UNCHANGED <<constructed, peakLive>>
    /\ UNCHANGED nonExportVars

\* the exported singleton editorManager
Singleton == "A"

\* createEditorInstance(config): constructs a new DocsAPI.DocEditor e on the
\* container, then registers it with editorManager.create, which destroys the
\* engine bound before
CreateEditorInstance(e, readOnlyConfig) ==
    /\ e \in Engines \ constructed
    /\ constructed' = constructed \cup {e}
    /\ peakLive' = Cardinality((constructed \cup {e}) \ destroyedEngines)
    /\ CreateFields(Singleton, e, IF readOnlyConfig THEN "readOnly: true" ELSE "readOnly: false")
    /\ UNCHANGED <<listeners, exports, emitCount, skipped>>
    /\ UNCHANGED nonExportVars

\* createEditorView(options) from its createEditorInstance call on: the engine
\* e is constructed and bound to the singleton manager, and a DOCUMENT_READY
\* listener closing over readOnly and hasUsed = false is registered
CreateEditorView(e, readOnlyOption) ==
    /\ e \in Engines \ constructed
    /\ constructed' = constructed \cup {e}
    /\ peakLive' = Cardinality((constructed \cup {e}) \ destroyedEngines)
    /\ CreateFields(Singleton, e, "readOnly: false")
    /\ readyListeners' = Append(readyListeners,
                                [readOnly |-> readOnlyOption, hasUsed |-> FALSE, engine |-> e])
    /\ lastReady' = <<>>
    /\ UNCHANGED <<listeners, exports, emitCount, skipped>>
    /\ UNCHANGED <<cacheVars, rpcVars, registryVars, serviceVars, tabsVars, x2tVars>>

\* onDocumentReady of the engine bound to the singleton manager:
\* eventBus.emit(DOCUMENT_READY) runs every registered listener; one whose
\* readOnly is set and hasUsed is not calls editor.setReadOnly(readOnly)
DocumentReady ==
    /\ editor[Singleton] # NoEditor
    /\ readyListeners # <<>>
    /\ lastReady' = [i \in 1..Len(SelectSeq(readyListeners,
                                            LAMBDA l : l.readOnly /\ ~l.hasUsed)) |->
                        [document |-> editor[Singleton],
                         createdBy |-> SelectSeq(readyListeners,
                                                 LAMBDA l : l.readOnly /\ ~l.hasUsed)[i].engine]]
    /\ readyListeners' = [i \in 1..Len(readyListeners) |->
                            [readyListeners[i] EXCEPT !.hasUsed = @ \/ readyListeners[i].readOnly]]
    /\ lastMode' = IF lastReady' = <<>> THEN lastMode
                   ELSE [handle |-> Singleton, flag |-> TRUE, editorBefore |-> editor[Singleton],
                         readOnlyBefore |-> readOnly[Singleton]]
    /\ createLog' = <<>>
    /\ UNCHANGED <<editor, editorConfig, readOnly, listeners, exports, destroyedEngines,
                   destroyed, emitCount, skipped, constructed, peakLive>>
    /\ UNCHANGED <<cacheVars, rpcVars, registryVars, serviceVars, tabsVars, x2tVars>>

\* destroy() on the manager of handle h: the body of its `if (this.editor)` is
\* commented out
Destroy(h) ==
    /\ destroyed' = [destroyed EXCEPT ![h] = TRUE]
    /\ lastMode' = NoMode
    /\ UNCHANGED <<editor, editorConfig, readOnly, listeners, exports, destroyedEngines,
                   emitCount, skipped>>
    /\ UNCHANGED <<constructed, peakLive>>
    /\ createLog' = <<>>
    /\ UNCHANGED nonExportVars

\* setReadOnly(readOnly) on the manager of handle h: everything after the
\* console.log is commented out; the async function returns, its promise resolves
SetReadOnly(h, flag) ==
    /\ lastMode' = [handle |-> h, flag |-> flag, editorBefore |-> editor[h],
                    readOnlyBefore |-> readOnly[h]]
    /\ UNCHANGED <<editor, editorConfig, readOnly, listeners, exports, destroyedEngines,
                   destroyed, emitCount, skipped>>
    /\ UNCHANGED <<constructed, peakLive>>
    /\ createLog' = <<>>
    /\ UNCHANGED nonExportVars

\* export() on the manager of handle h; throws: the downloadAs call throws
Export(h, throws) ==
    /\ Len(exports) < MaxExports
    /\ LET c == Len(exports) + 1
           x == [handle |-> h, status |-> "pending", payload |-> NoData, error |-> "",
                 settles |-> 0, timer |-> FALSE, triggered |-> FALSE,
                 inert |-> (editor[h] = NoEditor \/ destroyed[h]),
                 startedAt |-> emitCount]
       IN  IF editor[h] = NoEditor
           THEN /\ exports' = Append(exports, ExportSettle(x, "rejected", NoData,
                                                           EditorNotAvailable))
                /\ listeners' = listeners
           ELSE IF throws
           THEN /\ exports' = Append(exports, ExportSettle([x EXCEPT !.triggered = TRUE],
                                                           "rejected", NoData, DownloadAsError))
                /\ listeners' = BusOff(BusOn(listeners, HandleSaveOf(c)), HandleSaveOf(c))
           ELSE /\ exports' = Append(exports, [x EXCEPT !.timer = TRUE, !.triggered = TRUE])
                /\ listeners' = BusOn(listeners, HandleSaveOf(c))
    /\ UNCHANGED <<editor, editorConfig, readOnly, destroyedEngines, destroyed, lastMode,
                   emitCount, skipped>>
    /\ UNCHANGED <<constructed, peakLive>>
    /\ createLog' = <<>>
    /\ UNCHANGED nonExportVars

\* the setTimeout callback of export call c
ExportTimeout(c) ==
    /\ c \in 1..Len(exports)
    /\ exports[c].timer
    /\ listeners' = BusOff(listeners, HandleSaveOf(c))
    /\ exports' = [exports EXCEPT ![c] = ExportSettle([@ EXCEPT !.timer = FALSE], "rejected",
                                                      NoData, ExportTimeoutError)]
    /\ UNCHANGED <<editor, editorConfig, readOnly, destroyedEngines, destroyed, lastMode,
                   emitCount, skipped>>
    /\ UNCHANGED <<constructed, peakLive>>
    /\ createLog' = <<>>
    /\ UNCHANGED nonExportVars

\* saveEventBus.emit(data) with the data of a save of the engine of handle h
Emit(h) ==
    /\ editor[h] # NoEditor
    /\ emitCount < MaxEmits
    /\ emitCount' = emitCount + 1
    /\ LET st == ForEachListener([exports |-> exports, listeners |-> listeners, skipped |-> 0],
                                 listeners, SaveData(h, emitCount + 1))
       IN  /\ exports' = st.exports
           /\ listeners' = st.listeners
           /\ skipped' = st.skipped
    /\ UNCHANGED <<editor, editorConfig, readOnly, destroyedEngines, destroyed, lastMode>>
    /\ UNCHANGED <<constructed, peakLive>>
    /\ createLog' = <<>>
    /\ UNCHANGED nonExportVars

\* saveEventBus.on(callback) by other code
Subscribe(callback) ==
    /\ Len(SelectSeq(listeners, LAMBDA listener : listener.name # "handleSave"))
          < MaxSubscriptions
    /\ listeners' = BusOn(listeners, callback)
    /\ UNCHANGED <<editor, editorConfig, readOnly, exports, destroyedEngines, destroyed,
                   lastMode, emitCount, skipped>>
    /\ UNCHANGED <<constructed, peakLive>>
    /\ createLog' = <<>>
    /\ UNCHANGED nonExportVars

\* saveEventBus.off(callback) by other code
Unsubscribe(callback) ==
    /\ listeners' = BusOff(listeners, callback)
    /\ UNCHANGED <<editor, editorConfig, readOnly, exports, destroyedEngines, destroyed,
                   lastMode, emitCount, skipped>>
    /\ UNCHANGED <<constructed, peakLive>>
    /\ createLog' = <<>>
    /\ UNCHANGED nonExportVars

\* the state after `new EditorManager()` for each handle, the bus without listeners
InitExport ==
    /\ editor = [h \in Handles |-> NoEditor]
    /\ editorConfig = [h \in Handles |-> FALSE]
    /\ readOnly = [h \in Handles |-> FALSE]
    /\ listeners = <<>>
    /\ exports = <<>>
    /\ destroyedEngines = {}
    /\ destroyed = [h \in Handles |-> FALSE]
    /\ lastMode = NoMode
    /\ emitCount = 0
    /\ skipped = 0
    /\ constructed = {}
    /\ peakLive = 0
    /\ readyListeners = <<>>
    /\ lastReady = <<>>
    /\ createLog = <<>>

\* the engine the page of handle h builds for it
EngineOf(h) == IF h = "A" THEN "e1" ELSE "e2"

\* exports of several managers over the shared bus, each manager bound to its engine
NextExport ==
    \/ \E h \in Handles : Create(h, EngineOf(h), "absent")
    \/ \E h \in Handles, throws \in BOOLEAN : Export(h, throws)
    \/ \E c \in 1..MaxExports : ExportTimeout(c)
    \/ \E h \in Handles : Emit(h)

\* the same with destroy() calls on the managers
NextExportDestroy ==
    \/ \E h \in Handles : Create(h, EngineOf(h), "absent")
    \/ \E h \in Handles : Destroy(h)
    \/ \E h \in Handles, throws \in BOOLEAN : Export(h, throws)
    \/ \E c \in 1..MaxExports : ExportTimeout(c)
    \/ \E h \in Handles : Emit(h)

\* the lifecycle and mode operations of the managers
NextManager ==
    \/ \E h \in Handles, e \in Engines, config \in Configs : Create(h, e, config)
    \/ \E h \in Handles : Destroy(h)
    \/ \E h \in Handles, flag \in BOOLEAN : SetReadOnly(h, flag)

\* the single-instance page: engines built by createEditorInstance on the
\* singleton manager, its mode, its exports and its teardown
NextView ==
    \/ \E e \in Engines, readOnlyConfig \in BOOLEAN : CreateEditorInstance(e, readOnlyConfig)
    \/ \E e \in Engines, readOnlyOption \in BOOLEAN : CreateEditorView(e, readOnlyOption)
    \/ DocumentReady
    \/ Destroy(Singleton)
    \/ \E flag \in BOOLEAN : SetReadOnly(Singleton, flag)
    \/ \E throws \in BOOLEAN : Export(Singleton, throws)
    \/ \E c \in 1..MaxExports : ExportTimeout(c)
    \/ Emit(Singleton)

\* exports next to other subscribers of the bus
NextBus ==
    \/ \E h \in Handles : Create(h, EngineOf(h), "absent")
    \/ \E h \in Handles : Export(h, FALSE)
    \/ \E c \in 1..MaxExports : ExportTimeout(c)
    \/ \E h \in Handles : Emit(h)
    \/ \E callback \in Subscribers : Subscribe(callback)
    \/ \E callback \in Subscribers : Unsubscribe(callback)

\* the same with subscribers that call on()/off() during an emission
NextBusReentrant ==
    \/ \E h \in Handles : Create(h, EngineOf(h), "absent")
    \/ \E h \in Handles : Export(h, FALSE)
    \/ \E c \in 1..MaxExports : ExportTimeout(c)
    \/ \E h \in Handles : Emit(h)
    \/ \E callback \in Subscribers \cup ReentrantSubscribers : Subscribe(callback)
    \/ \E callback \in Subscribers \cup ReentrantSubscribers : Unsubscribe(callback)

(***************************************************************************)
(* editorManagerFactory: the instance registry                             *)
(***************************************************************************)
\* ONLYOFFICE_ID
DefaultContainerId == "iframe2"
ContainerIds == {DefaultContainerId, "editor-1", "editor-2"}
NoInstance == 0
NoLookup == [op |-> "", containerId |-> "", result |-> NoInstance, existed |-> FALSE]

\* the registry has an entry for containerId
RegistryHas(reg, containerId) == \E i \in 1..Len(reg) : reg[i].containerId = containerId

\* get(containerId) that falls back to the first handle registered
RegistryGetAny(reg, containerId) ==
    IF RegistryHas(reg, containerId)
    THEN reg[CHOOSE i \in 1..Len(reg) : reg[i].containerId = containerId].instanceId
    ELSE IF reg # <<>> THEN reg[1].instanceId ELSE NoInstance

\* get(containerId): the instanceId of the handle registered, or NoInstance
RegistryGet(reg, containerId) ==
    IF RegistryHas(reg, containerId)
    THEN reg[CHOOSE i \in 1..Len(reg) : reg[i].containerId = containerId].instanceId
    ELSE NoInstance

\* create(containerId) that registers a new handle whether or not one exists
RegistryCreateAlways(reg, counter, containerId) ==
    Append(reg, [containerId |-> containerId, instanceId |-> counter + 1,
                 editor |-> NoEditor, readOnly |-> FALSE])

\* create(containerId): the existing entry is kept; else a new unbound handle
\* is registered
RegistryCreate(reg, counter, containerId) ==
    IF RegistryHas(reg, containerId) THEN reg
    ELSE Append(reg, [containerId |-> containerId, instanceId |-> counter + 1,
                      editor |-> NoEditor, readOnly |-> FALSE])

\* destroy(containerId): the entry is destroyed and removed
RegistryDestroy(reg, containerId) ==
    SelectSeq(reg, LAMBDA entry : entry.containerId # containerId)

\* getAll()
GetAll(reg) == [i \in 1..Len(reg) |-> reg[i].instanceId]

\* editorManagerFactory.create(containerId); containerId omitted is the default
FactoryCreate(containerId) ==
    /\ RegistryHas(registry, containerId) \/ instanceCounter < MaxInstances
    /\ registry' = RegistryCreate(registry, instanceCounter, containerId)
    /\ instanceCounter' = IF registry' # registry THEN instanceCounter + 1 ELSE instanceCounter
    /\ created' = created \cup {containerId}
    /\ lastLookup' = [op |-> "create", containerId |-> containerId,
                      result |-> RegistryGet(registry', containerId),
                      existed |-> RegistryHas(registry, containerId)]
    /\ UNCHANGED nonRegistryVars

\* editorManagerFactory.get(containerId)
FactoryGet(containerId) ==
    /\ lastLookup' = [op |-> "get", containerId |-> containerId,
                      result |-> RegistryGet(registry, containerId),
                      existed |-> RegistryHas(registry, containerId)]
    /\ UNCHANGED <<registry, instanceCounter, created>>
    /\ UNCHANGED nonRegistryVars

\* editorManagerFactory.destroy(containerId)
FactoryDestroy(containerId) ==
    /\ registry' = RegistryDestroy(registry, containerId)
    /\ created' = created \ {containerId}
    /\ lastLookup' = NoLookup
    /\ UNCHANGED instanceCounter
    /\ UNCHANGED nonRegistryVars

\* editorManagerFactory.destroyAll()
FactoryDestroyAll ==
    /\ registry' = <<>>
    /\ created' = {}
    /\ lastLookup' = NoLookup
    /\ UNCHANGED instanceCounter
    /\ UNCHANGED nonRegistryVars

\* create(engine, config) on the handle registered for containerId
FactoryBind(containerId, flag) ==
    /\ RegistryHas(registry, containerId)
    /\ registry' = [i \in 1..Len(registry) |->
                      IF registry[i].containerId = containerId
                      THEN [registry[i] EXCEPT !.editor = "e1", !.readOnly = flag]
                      ELSE registry[i]]
    /\ lastLookup' = NoLookup
    /\ UNCHANGED <<instanceCounter, created>>
    /\ UNCHANGED nonRegistryVars

\* an empty registry
InitRegistry ==
    /\ registry = <<>>
    /\ instanceCounter = 0
    /\ created = {}
    /\ lastLookup = NoLookup

NextRegistry ==
    \/ \E containerId \in ContainerIds : FactoryCreate(containerId)
    \/ \E containerId \in ContainerIds : FactoryGet(containerId)
    \/ \E containerId \in ContainerIds : FactoryDestroy(containerId)
    \/ FactoryDestroyAll
    \/ \E containerId \in ContainerIds, flag \in BOOLEAN : FactoryBind(containerId, flag)

(***************************************************************************)
(* OnlyOfficeServicePage: the hosted service                               *)
(***************************************************************************)
ServiceRequestTypes == {"CREATE_EDITOR", "SET_READ_ONLY", "EXPORT", "DESTROY"}

\* the data field of a request: absent, or with the containerId ("" when
\* omitted) of CREATE_EDITOR, or with the instanceId of the other requests
NoServiceData == [present |-> FALSE, containerId |-> "", instanceId |-> NoInstance]
ServiceDataOf(type) ==
    {NoServiceData}
    \cup IF type = "CREATE_EDITOR"
         THEN [present : {TRUE}, containerId : {"", "editor-1"}, instanceId : {NoInstance}]
         ELSE [present : {TRUE}, containerId : {""}, instanceId : 1..2]

\* containerId || ONLYOFFICE_ID
ContainerIdActual(data) ==
    IF data.containerId = "" THEN DefaultContainerId ELSE data.containerId

\* window.parent.postMessage({type: 'RESPONSE', requestId, data})
PostResponse(rs, requestId) ==
    Append(rs, [requestId |-> requestId, data |-> TRUE, error |-> FALSE])

\* the handler without its catch block: the exception is lost
PostErrorNoOp(rs, requestId) == rs

\* the catch block: window.parent.postMessage({type: 'RESPONSE', requestId, error})
PostError(rs, requestId) ==
    Append(rs, [requestId |-> requestId, data |-> FALSE, error |-> TRUE])

\* the effect of the page runs: the 'message' listener is added and sendReady
\* is scheduled; complete is document.readyState === 'complete'
ServiceMount(complete) ==
    /\ ~readiness.mounted
    /\ readiness' = [mounted |-> TRUE, loadListener |-> ~complete, timers |-> 1, sent |-> 0]
    /\ UNCHANGED <<requests, responses, instanceMap, forwarded>>
    /\ UNCHANGED registryVars
    /\ UNCHANGED nonServiceVars

\* the 'load' event of the window, listened to once
WindowLoad ==
    /\ readiness.loadListener
    /\ readiness' = [readiness EXCEPT !.loadListener = FALSE, !.timers = @ + 1]
    /\ UNCHANGED <<requests, responses, instanceMap, forwarded>>
    /\ UNCHANGED registryVars
    /\ UNCHANGED nonServiceVars

\* a setTimeout(sendReady, ...) callback
SendReady ==
    /\ readiness.timers > 0
    /\ readiness' = [readiness EXCEPT !.timers = @ - 1, !.sent = @ + 1]
    /\ UNCHANGED <<requests, responses, instanceMap, forwarded>>
    /\ UNCHANGED registryVars
    /\ UNCHANGED nonServiceVars

\* handleMessage is called with a request, up to its first await or to its
\* end; ok: manager.destroy() of DESTROY returns normally
ServiceReceive(type, data, ok) ==
    /\ readiness.mounted
    /\ Len(requests) < MaxRequests
    /\ LET requestId == Len(requests) + 1
           known     == data.present /\ data.instanceId \in instanceMap
           r         == [type |-> type, requestId |-> requestId, data |-> data,
                         phase |-> "done", outcome |-> "error",
                         registeredBefore |->
                             (type = "CREATE_EDITOR"
                              /\ RegistryHas(registry, ContainerIdActual(data)))]
       IN  IF type = "CREATE_EDITOR"
           THEN /\ requests' = Append(requests, [r EXCEPT !.phase = "init", !.outcome = ""])
                /\ UNCHANGED <<responses, instanceMap>>
           ELSE IF type \in {"SET_READ_ONLY", "EXPORT"}
           THEN IF known
                THEN /\ requests' = Append(requests, [r EXCEPT !.phase = "await",
                                                                !.outcome = ""])
                     /\ UNCHANGED <<responses, instanceMap>>
                ELSE /\ requests' = Append(requests, r)
                     /\ responses' = PostError(responses, requestId)
                     /\ UNCHANGED instanceMap
           ELSE IF ~data.present \/ (known /\ ~ok)
                THEN /\ requests' = Append(requests, r)
                     /\ responses' = PostError(responses, requestId)
                     /\ UNCHANGED instanceMap
                ELSE /\ requests' = Append(requests, [r EXCEPT !.outcome = "data"])
                     /\ responses' = PostResponse(responses, requestId)
                     /\ instanceMap' = instanceMap \ {data.instanceId}
    /\ UNCHANGED <<readiness, forwarded>>
    /\ UNCHANGED registryVars
    /\ UNCHANGED nonServiceVars

\* the handler of request i continues after the promise it awaits has settled;
\* ok: the promise was fulfilled
ServiceResume(i, ok) ==
    /\ i \in 1..Len(requests)
    /\ requests[i].phase \in {"init", "view", "await"}
    /\ LET r           == requests[i]
           containerId == ContainerIdActual(r.data)
           failed      == [requests EXCEPT ![i].phase = "done", ![i].outcome = "error"]
           succeeded   == [requests EXCEPT ![i].phase = "done", ![i].outcome = "data"]
       IN  IF r.phase = "init"
           THEN IF ~ok \/ ~r.data.present
                THEN /\ requests' = failed
                     /\ responses' = PostError(responses, r.requestId)
                     /\ UNCHANGED registryVars
                ELSE /\ requests' = [requests EXCEPT ![i].phase = "view"]
                     /\ registry' = RegistryCreate(registry, instanceCounter, containerId)
                     /\ instanceCounter' = IF registry' # registry THEN instanceCounter + 1
                                            ELSE instanceCounter
                     /\ created' = created \cup {containerId}
                     /\ lastLookup' = [op |-> IF RegistryHas(registry, containerId)
                                              THEN "get" ELSE "create",
                                       containerId |-> containerId,
                                       result |-> RegistryGet(registry', containerId),
                                       existed |-> RegistryHas(registry, containerId)]
                     /\ UNCHANGED responses
           ELSE /\ IF ok
                   THEN /\ requests' = succeeded
                        /\ responses' = PostResponse(responses, r.requestId)
                   ELSE /\ requests' = failed
                        /\ responses' = PostError(responses, r.requestId)
                /\ UNCHANGED registryVars
    /\ instanceMap' = IF requests[i].phase = "view" /\ ok
                       THEN instanceMap \cup {RegistryGet(registry, ContainerIdActual(requests[i].data))}
                       ELSE instanceMap
    /\ UNCHANGED <<readiness, forwarded>>
    /\ UNCHANGED nonServiceVars

\* the instanceIds of the listeners registered on onlyofficeEventbus, in
\* registration order: one per CREATE_EDITOR answered with data (a
\* DOCUMENT_READY and a LOADING_CHANGE listener each, never removed)
Forwarders ==
    LET createdBy == SelectSeq(responses,
                               LAMBDA r : r.data /\ requests[r.requestId].type = "CREATE_EDITOR")
    IN  [i \in 1..Len(createdBy) |->
            RegistryGet(registry, ContainerIdActual(requests[createdBy[i].requestId].data))]

\* the editor of a live instance emits DOCUMENT_READY or LOADING_CHANGE on
\* onlyofficeEventbus: every registered listener posts a message carrying the
\* instanceId of the CREATE_EDITOR that registered it
BusEmit(instanceId) ==
    /\ instanceId \in instanceMap
    /\ forwarded' = [i \in 1..Len(Forwarders) |->
                        [instanceId |-> Forwarders[i], emitter |-> instanceId,
                         destroyed |-> Forwarders[i] \notin instanceMap]]
    /\ UNCHANGED <<requests, responses, instanceMap, readiness>>
    /\ UNCHANGED registryVars
    /\ UNCHANGED nonServiceVars

\* the page before its effect has run
InitService ==
    /\ requests = <<>>
    /\ responses = <<>>
    /\ instanceMap = {}
    /\ readiness = [mounted |-> FALSE, loadListener |-> FALSE, timers |-> 0, sent |-> 0]
    /\ forwarded = <<>>

NextService ==
    \/ \E complete \in BOOLEAN : ServiceMount(complete)
    \/ WindowLoad
    \/ SendReady
    \/ \E type \in ServiceRequestTypes :
          \E data \in ServiceDataOf(type), ok \in BOOLEAN : ServiceReceive(type, data, ok)
    \/ \E i \in 1..MaxRequests, ok \in BOOLEAN : ServiceResume(i, ok)

(***************************************************************************)
(* TabsPage: the queue of tabs waiting for their editor, and the render     *)
(***************************************************************************)
\* the pendingTabs effect, run after a render in which pendingTabs changed:
\* processPendingTab() starts for pendingTabs[0]; count is a per-tab counter
\* of the runs started
ProcessPendingTab(queue, count) ==
    IF queue = <<>> THEN count ELSE [count EXCEPT ![Head(queue)] = @ + 1]

\* createTab(fileName, file): the id is new, so getFromCache misses
CreateTab ==
    /\ tabCounter < MaxTabs
    /\ tabCounter' = tabCounter + 1
    /\ pendingTabs' = Append(pendingTabs, <<"t1", "t2", "t3">>[tabCounter'])
    /\ running' = ProcessPendingTab(pendingTabs', running)
    /\ createCalls' = ProcessPendingTab(pendingTabs', createCalls)
    /\ UNCHANGED removals
    /\ UNCHANGED cacheVars
    /\ UNCHANGED <<rpcVars, exportVars, registryVars, serviceVars, viewVars, x2tVars>>

\* the createEditorView of a processPendingTab() run for tabId settles; ok: it
\* was fulfilled.  The run adds the tab to the cache when ok, removes the head
\* of the queue, and the effect runs again
ProcessPendingTabDone(tabId, ok, now) ==
    /\ running[tabId] > 0
    /\ pendingTabs' = IF pendingTabs = <<>> THEN <<>> ELSE Tail(pendingTabs)
    /\ removals' = ProcessPendingTab(pendingTabs, removals)
    /\ running' = ProcessPendingTab(pendingTabs', [running EXCEPT ![tabId] = @ - 1])
    /\ createCalls' = ProcessPendingTab(pendingTabs', createCalls)
    /\ UNCHANGED tabCounter
    /\ IF ok
       THEN /\ Now(now)
            /\ LET item == [id |-> tabId, lastAccessed |-> now, manager |-> ManagerOf(tabId)]
                   r    == EvictLoop(CacheSet(cache, item),
                                     Append(RemoveKey(recency, tabId), tabId), lastWasGet,
                                     <<>>, <<SetCall(tabId)>>)
               IN  /\ cache' = r.cache
                   /\ calls' = r.calls
                   /\ recency' = r.recency
                   /\ evictions' = r.log
                   /\ lastWasGet' = FALSE
                   /\ fillCount' = NoFill
       ELSE /\ now = clock
            /\ UNCHANGED cacheVars
    /\ UNCHANGED <<rpcVars, exportVars, registryVars, serviceVars, viewVars, x2tVars>>

\* one render of the page: getFromCache(tab.id) is called for every tab that
\* has a container, with the clock value of the render
Render(now) ==
    /\ cache # <<>>
    /\ Now(now)
    /\ cache' = [i \in 1..Len(cache) |-> [cache[i] EXCEPT !.lastAccessed = now]]
    /\ recency' = [i \in 1..Len(cache) |-> cache[i].id]
    /\ evictions' = <<>>
    /\ lastWasGet' = TRUE
    /\ fillCount' = NoFill
    /\ calls' = <<>>
    /\ UNCHANGED nonCacheVars

InitTabs ==
    /\ tabCounter = 0
    /\ pendingTabs = <<>>
    /\ running = [tabId \in TabIds |-> 0]
    /\ createCalls = [tabId \in TabIds |-> 0]
    /\ removals = [tabId \in TabIds |-> 0]

\* the page: tabs are created, their editors get ready or fail, the user
\* switches tabs and the page renders
NextTabs ==
    \/ CreateTab
    \/ \E tabId \in TabIds, ok \in BOOLEAN, now \in 0..MaxTime :
          ProcessPendingTabDone(tabId, ok, now)
    \/ \E tabId \in TabIds, now \in 0..MaxTime : GetFromCache(tabId, now)
    \/ \E now \in 0..MaxTime : Render(now)

(***************************************************************************)
(* X2TConverter.initialize                                                 *)
(***************************************************************************)
\* initialize()
Initialize ==
    /\ Len(initCalls) < MaxInitCalls
    /\ LET call == [attempt |-> x2t.attempts, started |-> FALSE, returned |-> "initPromise",
                    afterFailure |-> x2t.phase = "failed",
                    inFlight |-> x2t.phase \in {"loading", "initializing"}]
       IN  IF x2t.isReady
           THEN /\ initCalls' = Append(initCalls, [call EXCEPT !.returned = "x2tModule"])
                /\ UNCHANGED x2t
           ELSE IF x2t.initPromise # "null"
           THEN /\ initCalls' = Append(initCalls, call)
                /\ UNCHANGED x2t
           ELSE /\ initCalls' = Append(initCalls, [call EXCEPT !.attempt = @ + 1,
                                                               !.started = TRUE])
                /\ x2t' = [x2t EXCEPT !.initPromise = "pending", !.attempts = @ + 1,
                                      !.phase = IF x2t.hasScriptLoaded THEN "initializing"
                                                ELSE "loading",
                                      !.runtime = x2t.hasScriptLoaded]
    /\ UNCHANGED <<cacheVars, rpcVars, exportVars, registryVars, serviceVars, tabsVars, viewVars>>

\* script.onload, then the executor of the promise doInitialize returns;
\* moduleFound: window.Module is set
ScriptLoaded(moduleFound) ==
    /\ x2t.phase = "loading"
    /\ x2t' = IF moduleFound
              THEN [x2t EXCEPT !.hasScriptLoaded = TRUE, !.phase = "initializing",
                               !.runtime = TRUE]
              ELSE [x2t EXCEPT !.hasScriptLoaded = TRUE, !.phase = "failed",
                               !.initPromise = "rejected"]
    /\ UNCHANGED initCalls
    /\ UNCHANGED <<cacheVars, rpcVars, exportVars, registryVars, serviceVars, tabsVars, viewVars>>

\* script.onerror: loadScript rejects and the catch of doInitialize resets initPromise
ScriptError ==
    /\ x2t.phase = "loading"
    /\ x2t' = [x2t EXCEPT !.phase = "failed", !.initPromise = "null"]
    /\ UNCHANGED initCalls
    /\ UNCHANGED <<cacheVars, rpcVars, exportVars, registryVars, serviceVars, tabsVars, viewVars>>

\* x2t.onRuntimeInitialized; ok: createWorkingDirectories returns normally
RuntimeInitialized(ok) ==
    /\ x2t.runtime
    /\ x2t' = IF ok
              THEN [x2t EXCEPT !.runtime = FALSE, !.isReady = TRUE, !.phase = "ready",
                               !.initPromise = IF @ = "pending" THEN "fulfilled" ELSE @]
              ELSE [x2t EXCEPT !.runtime = FALSE, !.phase = "failed",
                               !.initPromise = IF @ = "pending" THEN "rejected" ELSE @]
    /\ UNCHANGED initCalls
    /\ UNCHANGED <<cacheVars, rpcVars, exportVars, registryVars, serviceVars, tabsVars, viewVars>>

\* the INIT_TIMEOUT timer fires before onRuntimeInitialized
InitTimeout ==
    /\ x2t.phase = "initializing"
    /\ x2t' = [x2t EXCEPT !.phase = "failed", !.initPromise = "rejected"]
    /\ UNCHANGED initCalls
    /\ UNCHANGED <<cacheVars, rpcVars, exportVars, registryVars, serviceVars, tabsVars, viewVars>>

\* a new X2TConverter
InitX2T ==
    /\ x2t = [hasScriptLoaded |-> FALSE, isReady |-> FALSE, initPromise |-> "null",
              runtime |-> FALSE, phase |-> "idle", attempts |-> 0]
    /\ initCalls = <<>>

NextX2T ==
    \/ Initialize
    \/ \E moduleFound \in BOOLEAN : ScriptLoaded(moduleFound)
    \/ ScriptError
    \/ \E ok \in BOOLEAN : RuntimeInitialized(ok)
    \/ InitTimeout

\* every component in its state after construction
Init ==
    /\ InitCache
    /\ InitRpc
    /\ InitExport
    /\ InitRegistry
    /\ InitService
    /\ InitTabs
    /\ InitX2T

SpecX2T == Init /\ [][NextX2T]_vars

SpecTabs == Init /\ [][NextTabs]_vars

SpecService == Init /\ [][NextService]_vars

\* the service page with the editors of its instances emitting events
SpecServiceEvents ==
    Init /\ [][NextService \/ \E instanceId \in 1..MaxInstances : BusEmit(instanceId)]_vars

\* every promise a handler awaits settles
SpecServiceFair ==
    /\ Init
    /\ [][NextService]_vars
    /\ \A i \in 1..MaxRequests : WF_vars(\E ok \in BOOLEAN : ServiceResume(i, ok))

SpecExport == Init /\ [][NextExport]_vars

SpecExportDestroy == Init /\ [][NextExportDestroy]_vars

SpecRegistry == Init /\ [][NextRegistry]_vars

SpecView == Init /\ [][NextView]_vars

SpecManager == Init /\ [][NextManager]_vars

SpecBus == Init /\ [][NextBus]_vars

SpecBusReentrant == Init /\ [][NextBusReentrant]_vars

SpecCacheRemoval == Init /\ [][NextCacheRemoval]_vars

SpecRpc == Init /\ [][NextRpc]_vars

SpecRpcEvents == Init /\ [][NextRpcEvents]_vars

SpecRpcFanout == Init /\ [][NextRpcFanout]_vars

\* the client when every timer that stays scheduled fires and the hosted page
\* of an attached iframe posts its SERVICE_READY
SpecRpcFair ==
    /\ Init
    /\ [][NextRpc]_vars
    /\ \A requestId \in RequestIds : WF_vars(TimerFires(requestId))
    /\ WF_vars(iframe /\ Receive([type |-> "SERVICE_READY", requestId |-> NoId,
                                   error |-> NoError, data |-> "d1"]))

\* the client fields and the promises a message could touch
clientFields == <<iframe, ready, readyResolve, pendingRequests, timers, eventListeners,
                  requestIdCounter, futures, initWaiting>>

\* C1 (as claimed): an export that resolved did so with the payload of a save
\* of its own handle: the instanceId of the payload is the handle the export
\* was called on, whatever the order of the emissions.
C1_ExportCorrelation ==
    \A c \in 1..Len(exports) :
        exports[c].status = "resolved" => exports[c].payload.instanceId = exports[c].handle

\* C11 (as claimed): after destroy() the engine reference of the handle is
\* released: exists() is false and get() returns nothing, until the next
\* create().
C11_DestroyReleasesEngine ==
    \A h \in Handles : destroyed[h] => editor[h] = NoEditor

\* C12 (as claimed): an export() called on a handle that is unbound or has
\* been destroyed is rejected with the not-initialized error, has not called
\* the engine's save, and has no listener on the save-event bus.
C12_InertExportFails ==
    \A c \in 1..Len(exports) :
        exports[c].inert
           => /\ exports[c].status = "rejected"
              /\ exports[c].error = EditorNotAvailable
              /\ ~exports[c].triggered
              /\ HandleSaveOf(c) \notin SeqToSet(listeners)

\* C13 (as claimed): after setReadOnly(flag) has completed on a bound handle,
\* getReadOnly() returns flag.
C13_SetReadOnlyTakesEffect ==
    (lastMode.handle \in Handles /\ lastMode.editorBefore # NoEditor)
       => readOnly[lastMode.handle] = lastMode.flag

\* C14 (as claimed): setReadOnly(false) on a read-only bound handle destroys
\* the old engine and binds a new one, with getReadOnly() false afterwards;
\* setReadOnly(true) on an editable bound handle keeps the same engine bound
\* and getReadOnly() is true afterwards.
C14_AsymmetricModeTransitions ==
    (lastMode.handle \in Handles /\ lastMode.editorBefore # NoEditor)
       => LET h == lastMode.handle
          IN  /\ (lastMode.readOnlyBefore /\ ~lastMode.flag)
                    => /\ lastMode.editorBefore \in destroyedEngines
                       /\ editor[h] \notin {NoEditor, lastMode.editorBefore}
                       /\ ~readOnly[h]
              /\ (~lastMode.readOnlyBefore /\ lastMode.flag)
                    => /\ editor[h] = lastMode.editorBefore
                       /\ readOnly[h]

\* C15: getAll() returns each registered handle once, and as many handles as
\* there are containerIds created and not destroyed since; the registered
\* containerIds are exactly those.
C15_GetAllMatchesCreated ==
    /\ Len(GetAll(registry)) = Cardinality(created)
    /\ {registry[i].containerId : i \in 1..Len(registry)} = created
    /\ \A i, j \in 1..Len(registry) :
          (registry[i].containerId = registry[j].containerId
             \/ GetAll(registry)[i] = GetAll(registry)[j]) => i = j

\* two identities registered, one of them after an earlier handle was destroyed,
\* and a create() for an identity that was registered already
C15_Witness ==
    /\ Len(registry) = 2
    /\ instanceCounter = 3
    /\ lastLookup.op = "create"
    /\ lastLookup.existed

\* C16: create(id) on a registered id returns the handle registered, and leaves
\* the registry, with the engine binding and the mode of every handle, as it
\* was; get(id) never changes the registry and returns no handle for an id
\* that is not registered.
C16_CreateOrGet ==
    [][\A containerId \in ContainerIds :
          /\ (FactoryCreate(containerId) /\ RegistryHas(registry, containerId))
                => /\ registry' = registry
                   /\ lastLookup'.result = RegistryGet(registry, containerId)
          /\ FactoryGet(containerId)
                => /\ registry' = registry
                   /\ created' = created
                   /\ (~RegistryHas(registry, containerId)
                          => lastLookup'.result = NoInstance)]_vars

\* create() called for an identity whose handle is bound and read-only
C16_Witness ==
    /\ lastLookup.op = "create"
    /\ lastLookup.existed
    /\ \E i \in 1..Len(registry) :
          /\ registry[i].containerId = lastLookup.containerId
          /\ registry[i].instanceId = lastLookup.result
          /\ registry[i].editor # NoEditor
          /\ registry[i].readOnly

\* C17 (as claimed): at every moment at most one engine is live (constructed
\* and not destroyed) on the container: the previous engine is destroyed
\* before the new one is constructed.
C17_OneLiveEnginePerContainer ==
    peakLive <= 1

\* C18 (as claimed): an emission invokes every callback registered when it
\* started, also when one of them throws.
C18_EmitInvokesEveryCallback ==
    skipped = 0

\* C19: every export() call settles exactly once; while it is unsettled its
\* listener is registered once and its timer is scheduled; once it is settled
\* its listener is off the bus and its timer is cancelled, so the bus holds
\* exactly the listeners of the unsettled exports.
C19_ExportSettlesOnce ==
    /\ \A c \in 1..Len(exports) :
          LET x == exports[c]
          IN  /\ x.settles <= 1
              /\ (x.settles = 1) = (x.status # "pending")
              /\ x.status = "pending"
                    => x.timer /\ HandleSaveOf(c) \in SeqToSet(listeners)
              /\ x.status # "pending"
                    => ~x.timer /\ HandleSaveOf(c) \notin SeqToSet(listeners)
    /\ Len(SelectSeq(listeners, LAMBDA listener : listener.name = "handleSave"))
          = Cardinality({c \in 1..Len(exports) : exports[c].status = "pending"})

\* an export resolved by a save, a later one rejected by its timeout, and a
\* further emission after both had settled
C19_Witness ==
    /\ Len(exports) = 2
    /\ exports[1].status = "resolved"
    /\ exports[2].error = ExportTimeoutError
    /\ exports[2].startedAt = 1
    /\ emitCount = 2

\* C20 (as claimed): a wait resolves with the payload of the first emission
\* after it started, never with another one, and does not stay unsettled
\* across an emission: of the waits outstanding at an emission none is left
\* waiting.
C20_WaitResolvesWithNextEmission ==
    \A c \in 1..Len(exports) :
        /\ exports[c].status = "resolved"
              => exports[c].payload.binData = exports[c].startedAt + 1
        /\ exports[c].status = "pending" => emitCount = exports[c].startedAt

\* C2: every request entered into the pending table is settled exactly once:
\* while its requestId is in the table its promise is unsettled and its timer
\* is scheduled; once it is out of the table its promise has been settled by
\* exactly one resolve/reject call.
C2_SettledExactlyOnce ==
    /\ \A c \in 1..Len(futures) :
          LET f == futures[c]
          IN  /\ f.settles <= 1
              /\ (f.settles = 1) = (f.outcome # Unsettled)
              /\ f.requestId \in pendingRequests
                    => f.settles = 0 /\ f.phase = "pending" /\ f.requestId \in timers
              /\ (f.requestId # NoId /\ f.requestId \notin pendingRequests)
                    => f.settles = 1 /\ f.phase = "done" /\ f.requestId \notin timers
    /\ \A r \in pendingRequests : \E c \in 1..Len(futures) : futures[c].requestId = r

\* one request answered, the other rejected by destroyClient, and a response
\* for the second arriving after that
C2_Witness ==
    /\ Len(futures) = 2
    /\ futures[1].outcome = Resolved("d1")
    /\ futures[2].outcome = Rejected(ClientDestroyed)
    /\ last.op = "message"
    /\ last.stray = futures[2].requestId

\* C3 (as claimed): a message carrying a requestId that is not in the
\* pending table changes no promise and no client field and invokes no
\* event listener.
C3_StrayMessageHasNoEffect ==
    [][\A m \in Messages :
          (m.requestId # NoId /\ m.requestId \notin pendingRequests /\ Receive(m))
             => (UNCHANGED clientFields /\ last'.delivered = <<>>)]_vars

\* C4: a response settles exactly the pending request whose requestId it
\* carries, with its error or else its data, and leaves every other pending
\* request pending, unsettled and with its timer scheduled.
C4_CorrelatedByRequestId ==
    [][\A m \in Messages :
          (m.requestId \in pendingRequests /\ Receive(m))
             => LET c == CHOOSE d \in 1..Len(futures) : futures[d].requestId = m.requestId
                IN  /\ futures'[c].outcome = IF m.error = NoError THEN Resolved(m.data)
                                                                 ELSE Rejected(m.error)
                    /\ futures'[c].settles = 1
                    /\ \A d \in 1..Len(futures) : d # c => futures'[d] = futures[d]
                    /\ pendingRequests' = pendingRequests \ {m.requestId}
                    /\ timers' = timers \ {m.requestId}]_vars

\* two requests pending, the response to the second one arrived first
C4_Witness ==
    /\ Len(futures) = 2
    /\ futures[1].phase = "pending"
    /\ futures[1].requestId \in pendingRequests
    /\ futures[2].outcome = Resolved("d2")
    /\ last.op = "message"

\* C5: a request whose timer has fired is rejected with the timeout error
\* naming its type, by that one reject call, and its requestId is in the
\* pending table no more, whatever arrives afterwards.
C5_TimeoutRejectsAndRemoves ==
    \A c \in 1..Len(futures) :
        futures[c].timerFired
           => /\ futures[c].outcome = Rejected(TimeoutError(futures[c].type))
              /\ futures[c].settles = 1
              /\ futures[c].requestId \notin pendingRequests
              /\ futures[c].requestId \notin timers

\* an EXPORT request timed out and a response bearing its requestId arrived afterwards
C5_Witness ==
    \E c \in 1..Len(futures) :
        /\ futures[c].timerFired
        /\ futures[c].type = "EXPORT"
        /\ last.op = "message"
        /\ last.stray = futures[c].requestId

\* C6 (as claimed): destroyClient rejects every pending request as destroyed,
\* empties the pending table, removes every listener registration and
\* detaches the transport: a message arriving after it changes nothing of the
\* client and invokes no listener.
C6_CloseDetaches ==
    [][/\ DestroyClient
          => /\ pendingRequests' = {}
             /\ \A c \in 1..Len(futures) :
                   futures[c].requestId \in pendingRequests
                      => futures'[c].outcome = Rejected(ClientDestroyed)
             /\ \A e \in EventTypes : eventListeners'[e] = {}
       /\ \A m \in Messages :
             (closed /\ Receive(m))
                => (UNCHANGED clientFields /\ last'.delivered = <<>>)]_vars

\* C7 (as claimed): no init() call resolves while the SERVICE_READY signal
\* has not been received.
C7_InitWaitsForReady ==
    last.op = "init" /\ last.resolved => last.ready

SpecCache == Init /\ [][NextCache]_vars

CacheKeys == [i \in 1..Len(cache) |-> cache[i].id]

\* C8 (as claimed): after every cache operation the number of entries is at
\* most the configured capacity, whatever the keys (the empty string
\* included) and the timestamps.
C8_SizeWithinCapacity == Len(cache) <= maxCacheSize

\* C9 (as claimed): an entry evicted on overflow has the least lastAccessed
\* of the table at that moment, and capacity + 1 distinct keys inserted into
\* an empty cache leave exactly capacity entries.
C9_EvictsMinimumAndKeepsCapacity ==
    /\ \A i \in 1..Len(evictions) : evictions[i].lastAccessed = evictions[i].minTime
    /\ fillCount = maxCacheSize + 1 => Len(cache) = maxCacheSize

C24_CreateReplacesEngine ==
    [][\A h \in Handles, e \in Engines, config \in Configs \ {"absent"} :
          (editor[h] # NoEditor /\ Create(h, e, config))
             => /\ createLog' = <<[step |-> "destroyEditor", engine |-> editor[h],
                                    threw |-> TeardownThrows(editor[h]), propagated |-> FALSE],
                                   [step |-> "bind", engine |-> e, threw |-> FALSE,
                                    propagated |-> FALSE]>>
                /\ editor[h] \in destroyedEngines'
                /\ editor'[h] = e
                /\ editorConfig'[h]
                /\ readOnly'[h] = (config = "readOnly: true")]_vars

\* a read-only create on a handle whose previous engine threw in its teardown
C24_Witness ==
    /\ Len(createLog) = 2
    /\ createLog[1].step = "destroyEditor"
    /\ createLog[1].engine = "e2"
    /\ createLog[1].threw
    /\ createLog[2] = Bind("e1")
    /\ editor["A"] = "e1"
    /\ editorConfig["A"]
    /\ readOnly["A"]

\* C26: on every path that removes an entry from the cache (overflow eviction,
\* removeFromCache, clearCache) destroy() of the entry's handle is called before
\* the entry is deleted from the table, and removeFromCache of an absent key
\* calls no destroy() and changes nothing.
C26_DestroyBeforeDelete ==
    [][/\ \A i \in 1..Len(calls') :
             /\ (calls'[i].call = "delete" /\ calls'[i].had = 1)
                    => \E j \in 1..(i - 1) : /\ calls'[j].call = "destroy"
                                              /\ calls'[j].id = calls'[i].id
             /\ calls'[i].call = "clear"
                    => {calls'[j].id : j \in {k \in 1..(i - 1) : calls'[k].call = "destroy"}}
                          = {cache[k].id : k \in 1..Len(cache)}
       /\ \A id \in {cache[k].id : k \in 1..Len(cache)} \ {cache'[k].id : k \in 1..Len(cache')} :
             \E i \in 1..Len(calls') : calls'[i].call = "destroy" /\ calls'[i].id = id
       /\ (Len(calls') = 1 /\ calls'[1].call = "delete" /\ calls'[1].had = 0)
             => UNCHANGED <<cache, recency, clock>>]_vars

\* an overflow eviction that destroyed the handle of the evicted entry and
\* then deleted the entry
C26_Witness ==
    /\ Len(evictions) = 1
    /\ Len(calls) = 3
    /\ calls[1].call = "set"
    /\ calls[2].call = "destroy" /\ calls[2].id = evictions[1].id
    /\ calls[3].call = "delete" /\ calls[3].id = evictions[1].id

\* C27: when a handle's destroy() throws during eviction, removeFromCache or
\* clearCache, the exception does not leave the operation and the entry is
\* removed all the same; clearCache still destroys the remaining handles and
\* leaves the table empty.
C27_DestroyFailureIsSwallowed ==
    /\ \A i \in 1..Len(calls) :
          calls[i].call = "destroy"
             => /\ ~calls[i].propagated
                /\ ~CacheHas(cache, calls[i].id)
                /\ \E j \in (i + 1)..Len(calls) :
                      \/ calls[j].call = "delete" /\ calls[j].id = calls[i].id
                      \/ calls[j].call = "clear"
    /\ \A i \in 1..Len(calls) :
          calls[i].call = "clear"
             => /\ cache = <<>>
                /\ Cardinality({j \in 1..(i - 1) : calls[j].call = "destroy"}) = calls[i].had

\* a clearCache whose first destroy() threw and which destroyed the other
\* handle and emptied the table nevertheless
C27_Witness ==
    /\ Len(calls) = 3
    /\ calls[1].call = "destroy" /\ calls[1].threw
    /\ calls[2].call = "destroy" /\ ~calls[2].threw
    /\ calls[3].call = "clear"
    /\ cache = <<>>

\* C28: with a capacity of at least 1, addToCache(key, ...) never evicts the
\* entry it has just inserted: after the call key is in the cache, also when
\* entries share their lastAccessed.
C28_AddKeepsInsertedKey ==
    (calls # <<>> /\ calls[1].call = "set")
       => /\ CacheHas(cache, calls[1].id)
          /\ CacheGet(cache, calls[1].id).lastAccessed = clock
          /\ \A i \in 1..Len(evictions) : evictions[i].id # calls[1].id

\* C29: a callback registered k times on the bus is invoked k times by each
\* emission; after off(callback) no registration of it remains; off of a
\* callback that is not registered leaves the subscription table unchanged.
C29_InvokedOncePerRegistration ==
    [][/\ \A h \in Handles :
             Emit(h) => \A callback \in Subscribers :
                           Len(SelectSeq(SubSeq(listeners, 1, Len(listeners) - skipped'),
                                         LAMBDA listener : listener = callback))
                              = Len(SelectSeq(listeners, LAMBDA listener : listener = callback))
       /\ \A callback \in Subscribers :
             Unsubscribe(callback)
                => /\ \A i \in 1..Len(listeners') : listeners'[i] # callback
                   /\ (\A i \in 1..Len(listeners) : listeners[i] # callback)
                         => listeners' = listeners]_vars

\* this.listeners after every callback of snapshot has made its on()/off() calls
RECURSIVE TableAfter(_, _)
TableAfter(ls, snapshot) ==
    IF snapshot = <<>> THEN ls
    ELSE TableAfter(ListenerCalls(ls, Head(snapshot)), Tail(snapshot))

\* C30: when callbacks call on or off during an emission, the emission still
\* invokes exactly the callbacks registered when it started, each once per
\* registration, and the subscription table afterwards reflects exactly the
\* on/off calls made.
C30_ReentrantEmission ==
    [][\A h \in Handles :
          (/\ Emit(h)
           /\ \E i \in 1..Len(listeners) :
                 listeners[i] \in ReentrantSubscribers \/ listeners[i].name = "handleSave")
             => /\ skipped' = 0
                /\ listeners' = TableAfter(listeners, listeners)]_vars

\* C22: for every request message the hosted service receives (CREATE_EDITOR,
\* SET_READ_ONLY, EXPORT, DESTROY) it eventually posts exactly one response
\* carrying the requestId of the request, with either a data field or an error
\* field, also when the handler throws and when requests are handled
\* concurrently.
C22_ExactlyOneResponse ==
    /\ [](/\ \A i \in 1..Len(requests) :
               LET n == Cardinality({k \in 1..Len(responses) :
                                        responses[k].requestId = requests[i].requestId})
               IN  /\ n <= 1
                   /\ requests[i].phase = "done" <=> n = 1
           /\ \A k \in 1..Len(responses) :
                 /\ responses[k].data # responses[k].error
                 /\ \E j \in 1..Len(requests) :
                       /\ requests[j].requestId = responses[k].requestId
                       /\ requests[j].outcome = IF responses[k].error THEN "error" ELSE "data")
    /\ \A i \in 1..MaxRequests :
          (Len(requests) >= i)
             ~> (Cardinality({k \in 1..Len(responses) : responses[k].requestId = i}) = 1)

\* two requests were being handled at once; the handler of the second threw
\* and its error response was posted before the data response of the first
C22_Witness ==
    /\ Len(responses) = 2
    /\ responses[1].requestId = 2 /\ responses[1].error
    /\ responses[2].requestId = 1 /\ responses[2].data
    /\ requests[1].type = "CREATE_EDITOR"
    /\ requests[2].type = "CREATE_EDITOR"

\* C23: when creating an editor for a containerId fails, no handle for that
\* containerId is left registered: the registry and the instance table of the
\* service have the entries they had before the failed create.
C23_FailedCreateLeavesNothing ==
    \A i \in 1..Len(requests) :
       (/\ requests[i].type = "CREATE_EDITOR"
        /\ requests[i].data.present
        /\ requests[i].outcome = "error"
        /\ \A j \in 1..Len(requests) :
              (j # i /\ requests[j].type = "CREATE_EDITOR")
                 => ContainerIdActual(requests[j].data) # ContainerIdActual(requests[i].data))
          => /\ RegistryHas(registry, ContainerIdActual(requests[i].data))
                   = requests[i].registeredBefore
             /\ RegistryGet(registry, ContainerIdActual(requests[i].data)) \notin instanceMap

\* C25: the hosted service emits the SERVICE_READY signal exactly once per
\* page lifetime, whatever the load state of the document when it starts: never
\* more than once, and once when no sendReady timer is left to fire.
C25_ReadySignalOnce ==
    /\ readiness.sent <= 1
    /\ (readiness.mounted /\ readiness.timers = 0 /\ ~readiness.loadListener)
          => readiness.sent = 1

\* C31 (as claimed): a response whose requestId is pending rejects the request
\* with the error of the response whenever the response has an error field,
\* whatever its value (the empty string included), and else resolves it with
\* the data of the response.
C31_ErrorFieldRejects ==
    [][\A m \in FanoutMessages :
          (m.requestId \in pendingRequests /\ Receive(m))
             => futures'[CallOf(futures, m.requestId)].outcome
                   = IF m.error # NoError THEN Rejected(m.error) ELSE Resolved(m.data)]_vars

\* C32 (as claimed): the channel only moves forward: a request that has been
\* transmitted and is pending was transmitted after the readiness signal, so
\* the channel is ready, and a closed channel is not ready.
C32_ChannelMovesForward ==
    /\ \A c \in 1..Len(futures) : futures[c].phase = "pending" => ready
    /\ closed => ~ready

\* C33 (as claimed): a received event message invokes every listener
\* registered for its type exactly once, also after init(); no message is
\* delivered twice to the same listener.
C33_DeliveredOncePerListener ==
    last.op = "message"
       => /\ \A i, j \in 1..Len(last.delivered) :
                last.delivered[i].callback = last.delivered[j].callback => i = j
          /\ last.event # ""
                => \A callback \in eventListeners[last.event] :
                      \E i \in 1..Len(last.delivered) : last.delivered[i].callback = callback

\* C34 (as claimed): every sendMessage call eventually settles, when timers
\* fire: also a call made before the readiness signal, a call never answered
\* and a call outstanding when destroyClient is called.
C34_EverySendSettles ==
    \A c \in 1..MaxCalls : (Len(futures) >= c) ~> (Len(futures) >= c /\ futures[c].outcome # Unsettled)

\* C36 (as claimed): no handle leaves the cache without having been destroyed:
\* in every cache operation, each manager that an entry held before it and
\* that no entry holds after it (evicted, removed, cleared, or overwritten by
\* addToCache with another manager) had its destroy() called.
C36_NoHandleLeavesUndestroyed ==
    [][\A i \in 1..Len(cache) :
          (\A j \in 1..Len(cache') : cache'[j].manager # cache[i].manager)
             => \E k \in 1..Len(calls') :
                   calls'[k].call = "destroy" /\ calls'[k].id = cache[i].id]_vars

\* C35 (as claimed): every createTab call leads to exactly one
\* createEditorView invocation for its tab and to exactly one removal of its
\* entry from the pending queue: no tab has two creations, no entry is removed
\* twice, and a tab that is no longer queued was created once and removed once.
C35_OneCreationPerTab ==
    \A n \in 1..tabCounter :
       LET tabId == <<"t1", "t2", "t3">>[n]
       IN  /\ createCalls[tabId] <= 1
           /\ removals[tabId] <= 1
           /\ (\A i \in 1..Len(pendingTabs) : pendingTabs[i] # tabId)
                 => createCalls[tabId] = 1 /\ removals[tabId] = 1

\* C38 (as claimed): a render of the page leaves the lastAccessed of every
\* cache entry unchanged; only a user access to a tab changes it.
C38_RenderKeepsRecency ==
    [][(\E now \in 0..MaxTime : Render(now))
          => \A i \in 1..Len(cache) : cache'[i].lastAccessed = cache[i].lastAccessed]_vars

\* C39 (as claimed): the readOnly option of a createEditorView call is applied
\* only to the document that call created: a DOCUMENT_READY emission triggers
\* setReadOnly only from the listener of the call that created the document
\* that got ready, and the number of DOCUMENT_READY listeners createEditorView
\* has registered does not grow with the number of calls.
C39_ReadOnlyAppliesToOwnDocument ==
    /\ \A i \in 1..Len(lastReady) : lastReady[i].createdBy = lastReady[i].document
    /\ Len(readyListeners) <= 1

\* C37 (as claimed): one emission on the event bus makes the hosted service
\* forward one message, the message carries the instanceId of the instance
\* that emitted, and no message is forwarded with the instanceId of an
\* instance whose DESTROY has been answered.
C37_ForwardedEventsAreTagged ==
    /\ Len(forwarded) <= 1
    /\ \A i \in 1..Len(forwarded) :
          /\ forwarded[i].instanceId = forwarded[i].emitter
          /\ ~forwarded[i].destroyed

\* C40 (as claimed): initialize() is single-flight and retryable: a call made
\* while an attempt is in progress starts none and returns that attempt, a
\* call after success returns the ready module and starts none, and a call
\* made after the last attempt failed starts a fresh attempt.
C40_SingleFlightAndRetryable ==
    \A c \in 1..Len(initCalls) :
       /\ initCalls[c].inFlight => ~initCalls[c].started
       /\ initCalls[c].returned = "x2tModule" => ~initCalls[c].started
       /\ initCalls[c].afterFailure => initCalls[c].started

====
